---- MODULE Spec2Model ----
(***************************************************************************)
(* A model of the flashcard quiz application of src/main.py: the in-memory *)
(* question list, the quiz cursor, the per-session admin cursor, the       *)
(* backing JSON document, and one action per HTTP handler.                 *)
(*                                                                         *)
(* Text values are sequences of one-character strings so that strip() and  *)
(* lower() are computed; ids and timestamps are opaque strings.  Indexes   *)
(* are 0-based as in the code: record i of the list is questions[i + 1].   *)
(***************************************************************************)
EXTENDS Integers, Sequences, FiniteSets, Bags, TLC

\* ------------------------------------------------------------------ bounds
\* Longest question list the admin handler is allowed to grow.
MaxLen == 2
\* Longest initial question list of the quiz specification.
MaxQuizLen == 2
\* Longest initial question list of the browsing specification.
MaxBrowseLen == 2
\* Cap of the per-record counters (grading stops at the cap).
MaxCount == 2
\* Longest question list of the multiple-choice specification.
MaxMCLen == 4
\* Most rows of the document the load specification starts from, and its
\* longest question list.
MaxDocLen == 2
\* Most requests one server thread handles in the threaded specification.
MaxRequests == 1

\* ------------------------------------------------------- Python's values
\* Python's None, where a string may stand as well.
None == "<None>"
\* The request parameter `answer` is absent.
NoAnswer == <<"<absent>">>
\* JSON null in the backing document; a JSON string s is <<s>>.
JsonNull == <<>>

Min(a, b) == IF a < b THEN a ELSE b
Max(a, b) == IF a > b THEN a ELSE b

\* str.lower() on one character, then on a string.
LowerChar(c) == IF c = "A" THEN "a" ELSE IF c = "B" THEN "b"
                ELSE IF c = "C" THEN "c" ELSE c
Lower(s) == [k \in 1..Len(s) |-> LowerChar(s[k])]

\* str.strip(): drop leading and trailing whitespace.
RECURSIVE LStrip(_)
LStrip(s) == IF s # <<>> /\ Head(s) = " " THEN LStrip(Tail(s)) ELSE s
RECURSIVE RStrip(_)
RStrip(s) == IF s # <<>> /\ s[Len(s)] = " "
             THEN RStrip(SubSeq(s, 1, Len(s) - 1)) ELSE s
Strip(s) == RStrip(LStrip(s))

\* str.split(","): the pieces between commas (always at least one piece).
RECURSIVE SplitComma(_, _)
SplitComma(s, cur) ==
    IF s = <<>> THEN <<cur>>
    ELSE IF Head(s) = "," THEN <<cur>> \o SplitComma(Tail(s), <<>>)
    ELSE SplitComma(Tail(s), Append(cur, Head(s)))

\* [t.strip() for t in pieces if t.strip()]
RECURSIVE StripNonEmpty(_)
StripNonEmpty(ps) ==
    IF ps = <<>> THEN <<>>
    ELSE IF Strip(Head(ps)) # <<>>
         THEN <<Strip(Head(ps))>> \o StripNonEmpty(Tail(ps))
         ELSE StripNonEmpty(Tail(ps))

\* int(x): the decimal value of a string of digits with surrounding
\* whitespace allowed; -1 stands for the ValueError int() raises otherwise.
\* `x or 0` has already turned the empty string into 0.
DigitVal(c) == CASE c = "0" -> 0 [] c = "1" -> 1 [] c = "2" -> 2
                 [] c = "3" -> 3 [] OTHER -> -1
RECURSIVE DigitsValue(_, _)
DigitsValue(s, acc) ==
    IF s = <<>> THEN acc
    ELSE IF DigitVal(Head(s)) < 0 THEN -1
    ELSE DigitsValue(Tail(s), 10 * acc + DigitVal(Head(s)))
ValueError == -1
PyInt(s) == IF s = <<>> THEN 0
            ELSE IF Strip(s) = <<>> THEN ValueError
            ELSE DigitsValue(Strip(s), 0)

\* ------------------------------------------------------------ the records
\* `x or d`: d when x is the falsy value of its type, x otherwise.
OrElse(x, falsy, d) == IF x = falsy THEN d ELSE x

\* kw holds the keyword arguments of the call; uuid is what str(uuid.uuid4())
\* returns if it is evaluated.
_make_question(kw, uuid) ==
    [id            |-> IF kw.id_ # "" /\ kw.id_ # None THEN kw.id_ ELSE uuid,
     definition    |-> OrElse(kw.definition, <<>>, <<>>),
     term          |-> OrElse(kw.term, <<>>, <<>>),
     attempts      |-> OrElse(kw.attempts, 0, 0),
     correct_count |-> OrElse(kw.correct_count, 0, 0),
     wrong_count   |-> OrElse(kw.wrong_count, 0, 0),
     last_seen     |-> kw.last_seen,
     topic         |-> OrElse(kw.topic, <<>>, <<>>),
     level         |-> OrElse(kw.level, <<>>, <<>>),
     tags          |-> OrElse(kw.tags, <<>>, <<>>),
     notes         |-> OrElse(kw.notes, <<>>, <<>>)]

\* json.dump of one record / of the list, and the reading of it back.
JsonOfRecord(q) ==
    [q EXCEPT !.last_seen = IF @ = None THEN JsonNull ELSE <<@>>]
\* save_questions writing the first record only.
SaveFirstOnly(qs) ==
    [exists |-> TRUE, rows |-> [k \in 1..Min(1, Len(qs)) |-> JsonOfRecord(qs[k])]]

save_questions(qs) ==
    [exists |-> TRUE, rows |-> [k \in 1..Len(qs) |-> JsonOfRecord(qs[k])]]

\* A row of the document is a record: a JSON object is the record of its
\* keys, a JSON array (a legacy row) is [legacy |-> its items], and any other
\* JSON value is [other |-> the value].
IsLegacyRow(item) == DOMAIN item = {"legacy"}
IsDictRow(item) == "legacy" \notin DOMAIN item /\ "other" \notin DOMAIN item

\* item.get(key, default)
Get(item, key, default) == IF key \in DOMAIN item THEN item[key] ELSE default

\* json.load of the value of "last_seen": null is None, a string is itself.
LastSeenOfJson(v) == IF v = JsonNull THEN None ELSE v[1]

\* Lines 49-52: the keyword arguments from a legacy row (the parameters not
\* passed take their defaults; tags=None is already written as the [] that
\* `tags or []` makes of it).
LegacyKw(items) ==
    [id_           |-> None,
     definition    |-> IF Len(items) > 0 THEN items[1] ELSE <<>>,
     term          |-> IF Len(items) > 1 THEN items[2] ELSE <<>>,
     attempts      |-> IF Len(items) > 2 THEN items[3] ELSE 0,
     correct_count |-> 0, wrong_count |-> 0, last_seen |-> None,
     topic |-> <<>>, level |-> <<>>, tags |-> <<>>, notes |-> <<>>]

\* RowKw without the id: every load gives the record a new one.
RowKwNoId(item) ==
    [id_           |-> None,
     definition    |-> Get(item, "definition", <<>>),
     term          |-> Get(item, "term", <<>>),
     attempts      |-> Get(item, "attempts", 0),
     correct_count |-> Get(item, "correct_count", 0),
     wrong_count   |-> Get(item, "wrong_count", 0),
     last_seen     |-> LastSeenOfJson(Get(item, "last_seen", JsonNull)),
     topic         |-> Get(item, "topic", <<>>),
     level         |-> Get(item, "level", <<>>),
     tags          |-> Get(item, "tags", <<>>),
     notes         |-> Get(item, "notes", <<>>)]

\* Lines 55-67: the keyword arguments from a dict row.
RowKw(item) ==
    [id_           |-> Get(item, "id", None),
     definition    |-> Get(item, "definition", <<>>),
     term          |-> Get(item, "term", <<>>),
     attempts      |-> Get(item, "attempts", 0),
     correct_count |-> Get(item, "correct_count", 0),
     wrong_count   |-> Get(item, "wrong_count", 0),
     last_seen     |-> LastSeenOfJson(Get(item, "last_seen", JsonNull)),
     topic         |-> Get(item, "topic", <<>>),
     level         |-> Get(item, "level", <<>>),
     tags          |-> Get(item, "tags", <<>>),
     notes         |-> Get(item, "notes", <<>>)]

\* The ids str(uuid.uuid4()) draws from.
Uuids == <<"u1", "u2", "u3", "u4">>
\* What str(uuid.uuid4()) returns: an id not among taken.  Ids are only ever
\* compared for equality, so which unused id it is makes no difference and
\* the first unused one is taken.
FirstUnused(taken) ==
    LET unused == { k \in 1..Len(Uuids) : Uuids[k] \notin taken }
    IN  Uuids[CHOOSE m \in unused : \A j \in unused : m <= j]

\* The ids the dict rows of the document carry.
DocIds(rows) ==
    { Get(rows[k], "id", None) : k \in { j \in 1..Len(rows) : IsDictRow(rows[j]) } }

\* Lines 45-73: the loop over the rows; acc is the list so far, doc_ids the
\* ids the document carries (a new uuid differs from all of these).
RECURSIVE LoadRows(_, _, _)
LoadRows(rows, acc, doc_ids) ==
    IF rows = <<>> THEN acc
    ELSE LET item == Head(rows)
             uuid == FirstUnused(doc_ids \cup { acc[k].id : k \in 1..Len(acc) })
         IN  IF IsLegacyRow(item)
             THEN LoadRows(Tail(rows),
                           Append(acc, CHOOSE q \in { _make_question(kw, uuid) :
                                                        kw \in {LegacyKw(item.legacy)} } : TRUE),
                           doc_ids)
             ELSE IF IsDictRow(item)
             THEN LoadRows(Tail(rows),
                           Append(acc, CHOOSE q \in { _make_question(kw, uuid) :
                                                        kw \in {RowKw(item)} } : TRUE),
                           doc_ids)
             ELSE LoadRows(Tail(rows), acc, doc_ids)

load_questions(doc) ==
    IF ~doc.exists THEN <<>> ELSE LoadRows(doc.rows, <<>>, DocIds(doc.rows))

\* ------------------------------------------------------------------ state
VARIABLES
    questions,               \* the global list of records
    current_question_index,  \* the quiz cursor (global)
    session,                 \* session[s]: that session's "admin_index", or Unset
    disk,                    \* questions.json
    last,                    \* the request just handled and its response
    inflight                 \* inflight[t]: the request server thread t is handling

vars == <<questions, current_question_index, session, disk, last, inflight>>

\* "admin_index" not in session
Unset == -1
Sessions == {1, 2}

\* The 0-based position that stands for "no position".
None_Index == -1

\* The threads of the server (werkzeug's development server, which app.run
\* starts, handles each request in a thread of its own).
Threads == {1, 2}
\* A thread with no request: pc is the source line the thread is about to
\* run (0 when it has no request), the other fields are the handler's locals
\* and the outcome of the thread's last request.
IdleThread ==
    [req |-> "none", pc |-> 0, answer |-> NoAnswer, correct |-> <<>>,
     matched |-> FALSE, qid |-> "", i |-> None_Index, outcome |-> "ok",
     served |-> 0, graded |-> 0]

\* What a response records, beside the request it answers.  outcome is "ok"
\* or the exception raised; pos is the position of the record the request
\* graded, wrote or deleted (for /shuffle, where the quiz cursor stood when
\* the request came), and before holds that record as it was;
\* after_wrong says that the request before this one was a wrong answer;
\* nums holds the attempts, correct_count and wrong_count fields of the form
\* of an add or save, as submitted.
NoResponse ==
    [op |-> "start", outcome |-> "ok", sid |-> 0, action |-> "", qid |-> "",
     rid |-> "", answer |-> NoAnswer, mc |-> FALSE, graded |-> "none",
     now |-> None, saves |-> 0, mc_mode |-> FALSE, mc_options |-> <<>>,
     response |-> "", index |-> 0, count |-> 0, viewed |-> 0, stats |-> <<>>,
     pos |-> None_Index, before |-> <<>>, after_wrong |-> FALSE, nums |-> <<>>]

\* ---------------------------------------------------------- the inputs
\* Records questions.json may hold at start-up: a fresh one, a migrated
\* legacy row (attempts without correct/wrong counts) whose term was typed
\* with a trailing blank, and one answered before that repeats the first
\* one's term.
Rec(id, definition, term, attempts, correct_count, last_seen) ==
    [id |-> id, definition |-> definition, term |-> term, attempts |-> attempts,
     correct_count |-> correct_count, wrong_count |-> 0, last_seen |-> last_seen,
     topic |-> <<>>, level |-> <<>>, tags |-> <<>>, notes |-> <<>>]
InitRecords ==
    { Rec("i1", <<"d">>, <<"A">>, 0, 0, None),
      Rec("i2", <<"e">>, <<"B", " ">>, 1, 0, None) }
QuizRecords ==
    InitRecords \cup { Rec("i3", <<"f">>, <<"A">>, 1, 1, "t0") }
\* The records of the admin pages: those, and one that carries the id of
\* the first (load_questions takes the ids as the document gives them).
BrowseRecords ==
    QuizRecords \cup { Rec("i1", <<"g">>, <<"c">>, 0, 0, None) }
\* Records for the multiple-choice options: two of them carry the same term.
McRecords ==
    { Rec("m1", <<"d">>, <<"x">>, 0, 0, None),
      Rec("m2", <<"d">>, <<"b">>, 0, 0, None),
      Rec("m3", <<"d">>, <<"b">>, 0, 0, None),
      Rec("m4", <<"d">>, <<"c">>, 0, 0, None),
      Rec("m5", <<"d">>, <<"d">>, 0, 0, None) }

\* The lists of at most n records of S, no record twice.
ListsOf(S, n) ==
    UNION { { f \in [1..k -> S] : \A a, b \in 1..k : a # b => f[a] # f[b] }
            : k \in 0..n }

\* datetime.utcnow().isoformat() at the moment of a graded request.
Times == {"t1"}
\* The values of the request parameter `answer`.
Answers == {<<>>, <<"b">>, NoAnswer, <<" ", "a">>}

\* ------------------------------------------------------------------ Init
\* The state after the module is loaded: questions = load_questions() of a
\* document of canonical records, or of no document at all.
InitWith(RecordSet, n) ==
    /\ questions \in ListsOf(RecordSet, n)
    /\ current_question_index = 0
    /\ session = [s \in Sessions |-> Unset]
    /\ disk \in IF questions = <<>>
                THEN {[exists |-> FALSE, rows |-> <<>>], save_questions(<<>>)}
                ELSE {save_questions(questions)}
    /\ last = NoResponse
    /\ inflight = [t \in Threads |-> IdleThread]

Init == InitWith(InitRecords, MaxLen)

\* ------------------------------------------------------------- utilities
index_clamp(i, n) == Max(0, Min(i, n - 1))

\* The 0-based position of the first record with id qid, or None_Index.
find_index_by_id(qs, qid) ==
    IF \E k \in 1..Len(qs) : qs[k].id = qid
    THEN (CHOOSE k \in 1..Len(qs) :
              /\ qs[k].id = qid
              /\ \A j \in 1..(k - 1) : qs[j].id # qid) - 1
    ELSE None_Index

\* random.shuffle(lst): every reordering of lst.
Shuffles(lst) ==
    { [j \in 1..Len(lst) |-> lst[p[j]]] : p \in Permutations(1..Len(lst)) }

\* random.sample(lst, k): k positions of lst, no position twice, in any order.
Samples(lst, k) ==
    { [j \in 1..k |-> lst[f[j]]] :
        f \in { g \in [1..k -> 1..Len(lst)] :
                  \A a, b \in 1..k : a # b => g[a] # g[b] } }

\* random.randint(0, n - 1)
RandomIndexes(n) == 0..(n - 1)

\* ------------------------------------------------------------------ /quiz
\* answer is not None and len(answer) > 0
HasAnswer(answer) == answer # NoAnswer /\ Len(answer) > 0

\* given == correct, with given = answer.strip().lower() and
\* correct = term.lower().
Matches(answer, term) == Lower(Strip(answer)) = Lower(term)

\* Graded with the two counters taken for one another.
GradedSwapped(q, matched, now) ==
    [q EXCEPT !.attempts = @ + 1,
              !.last_seen = now,
              !.correct_count = IF matched THEN @ ELSE @ + 1,
              !.wrong_count = IF matched THEN @ + 1 ELSE @]

\* Graded without the count of the attempt.
GradedNoAttempt(q, matched, now) ==
    [q EXCEPT !.last_seen = now,
              !.correct_count = IF matched THEN @ + 1 ELSE @,
              !.wrong_count = IF matched THEN @ ELSE @ + 1]

\* The current record after a graded answer.
Graded(q, matched, now) ==
    [q EXCEPT !.attempts = @ + 1,
              !.last_seen = now,
              !.correct_count = IF matched THEN @ + 1 ELSE @,
              !.wrong_count = IF matched THEN @ ELSE @ + 1]

\* IndexAfterGrade going back to the first record after a wrong answer.
IndexResetOnWrong(idx, matched, nxt) == IF matched THEN nxt ELSE 0

\* The quiz cursor after a graded answer; nxt is what randint returned
\* (None_Index when it was not called).
IndexAfterGrade(idx, matched, nxt) == IF matched THEN nxt ELSE idx

\* mc_mode after a graded answer.
McModeAfterGrade(matched) == ~matched

\* The lists mc_options may be for the record at 0-based position idx.
McOptions(qs, idx) ==
    LET correct_term == qs[idx + 1].term
        terms == [k \in 1..Len(qs) |-> qs[k].term]
        all_terms == SelectSeq(terms, LAMBDA t : t # correct_term)
        wrongs == IF all_terms # <<>>
                  THEN Samples(all_terms, Min(3, Len(all_terms)))
                  ELSE {<<>>}
    IN  UNION { Shuffles(<<correct_term>> \o w) : w \in wrongs }

\* The grading's counters stay within the model's cap.
CanGrade(q) ==
    q.attempts < MaxCount /\ q.correct_count < MaxCount /\ q.wrong_count < MaxCount

\* QuizEmpty putting the quiz cursor back to 0 and writing the document.
QuizEmptyResets(answer, mc) ==
    /\ questions = <<>>
    /\ last' = [NoResponse EXCEPT !.op = "quiz", !.answer = answer, !.mc = mc,
                  !.response = "No questions found.", !.viewed = None_Index]
    /\ current_question_index' = 0
    /\ disk' = save_questions(questions)
    /\ UNCHANGED <<questions, session, inflight>>

\* Lines 245-248: the list is empty; no record is read.
QuizEmpty(answer, mc) ==
    /\ questions = <<>>
    /\ last' = [NoResponse EXCEPT !.op = "quiz", !.answer = answer, !.mc = mc,
                  !.response = "No questions found.", !.viewed = None_Index]
    /\ UNCHANGED <<questions, current_question_index, session, disk, inflight>>

\* questions[current_question_index] raises IndexError (line 253 when an
\* answer is graded, line 277 or 283 otherwise) before anything is changed.
QuizIndexError(answer, mc) ==
    /\ questions # <<>>
    /\ current_question_index >= Len(questions)
    /\ last' = [NoResponse EXCEPT !.op = "quiz", !.answer = answer, !.mc = mc,
                  !.outcome = "IndexError", !.viewed = current_question_index]
    /\ UNCHANGED <<questions, current_question_index, session, disk, inflight>>

QuizGrade(answer, mc) ==
    /\ questions # <<>>
    /\ current_question_index < Len(questions)
    /\ HasAnswer(answer)
    /\ CanGrade(questions[current_question_index + 1])
    /\ \E now \in Times,
          matched \in {Matches(answer, questions[current_question_index + 1].term)} :
       \E nxt \in IF matched THEN RandomIndexes(Len(questions)) ELSE {None_Index} :
         LET cur == questions[current_question_index + 1]
             idx2 == IndexAfterGrade(current_question_index, matched, nxt)
             mc_mode == McModeAfterGrade(matched)
         IN  /\ questions' = [questions EXCEPT ![current_question_index + 1] =
                                                  Graded(cur, matched, now)]
             /\ disk' = save_questions(questions')
             /\ current_question_index' = idx2
             /\ \E opts \in IF mc_mode THEN McOptions(questions', idx2) ELSE {<<>>} :
                  last' = [NoResponse EXCEPT
                             !.op = "quiz", !.answer = answer, !.mc = mc,
                             !.graded = IF matched THEN "correct" ELSE "wrong",
                             !.now = now, !.saves = 1,
                             !.mc_mode = mc_mode, !.mc_options = opts,
                             !.response = IF matched THEN "Correct!" ELSE "Not quite!",
                             !.viewed = idx2,
                             !.pos = current_question_index, !.before = <<cur>>,
                             !.after_wrong = (last.graded = "wrong")]
    /\ UNCHANGED <<session, inflight>>

QuizShow(answer, mc) ==
    /\ questions # <<>>
    /\ current_question_index < Len(questions)
    /\ ~HasAnswer(answer)
    /\ \E opts \in IF mc THEN McOptions(questions, current_question_index)
                         ELSE {<<>>} :
         last' = [NoResponse EXCEPT !.op = "quiz", !.answer = answer, !.mc = mc,
                    !.mc_mode = mc, !.mc_options = opts,
                    !.viewed = current_question_index]
    /\ UNCHANGED <<questions, current_question_index, session, disk, inflight>>

quiz(answer, mc) ==
    \/ QuizEmpty(answer, mc)
    \/ QuizIndexError(answer, mc)
    \/ QuizGrade(answer, mc)
    \/ QuizShow(answer, mc)

\* --------------------------------------------------------------- /shuffle
\* /shuffle leaving the quiz cursor where it stood.
ShuffleKeepsCursor ==
    /\ questions' \in Shuffles(questions)
    /\ current_question_index' = current_question_index
    /\ last' = [NoResponse EXCEPT !.op = "shuffle", !.pos = current_question_index]
    /\ UNCHANGED <<session, disk, inflight>>

shuffle_questions ==
    /\ questions' \in Shuffles(questions)
    /\ current_question_index' = 0
    /\ last' = [NoResponse EXCEPT !.op = "shuffle", !.pos = current_question_index]
    /\ UNCHANGED <<session, disk, inflight>>

\* ----------------------------------------------------------------- /stats
\* get_stats subscripts each record with the integer 2.  A record is a dict
\* whose keys are the eleven field names, so q[2] raises KeyError on the
\* first record; only the empty list gets through the loop.
KeyError == -2
Subscript2(q) == KeyError
RECURSIVE StatsLoop(_, _)
StatsLoop(qs, acc) ==
    IF qs = <<>> THEN acc
    ELSE LET v == Subscript2(Head(qs))
         IN  IF v = KeyError THEN <<KeyError>>
             ELSE StatsLoop(Tail(qs),
                            <<acc[1] + (IF v > 0 THEN 1 ELSE 0),
                              acc[2] + (IF v > 0 THEN 0 ELSE 1),
                              acc[3] + v>>)
get_stats(qs) == StatsLoop(qs, <<0, 0, 0>>)

stats ==
    /\ last' = [NoResponse EXCEPT
                  !.op = "stats",
                  !.outcome = IF get_stats(questions) = <<KeyError>>
                              THEN "KeyError" ELSE "ok",
                  !.stats = get_stats(questions)]
    /\ UNCHANGED <<questions, current_question_index, session, disk, inflight>>

\* --------------------------------------------------------------------- /
home ==
    /\ last' = [NoResponse EXCEPT !.op = "home"]
    /\ UNCHANGED <<questions, current_question_index, session, disk, inflight>>

\* -------------------------------------------------------- /question_admin
\* The form of an add or save, as submitted (raw field values).
FormNew ==
    [definition |-> <<" ", "g">>, term |-> <<" ", "b", " ">>,
     attempts |-> <<>>, correct_count |-> <<>>, wrong_count |-> <<>>,
     last_seen |-> "", topic |-> <<"t", " ">>, level |-> <<>>,
     tags |-> <<"x", ",", " ", ",", "y", " ">>, notes |-> <<>>]
FormEdit ==
    [definition |-> <<"h">>, term |-> <<"a">>,
     attempts |-> <<"1">>, correct_count |-> <<" ", "1">>, wrong_count |-> <<"0">>,
     last_seen |-> "t0", topic |-> <<>>, level |-> <<"l">>,
     tags |-> <<>>, notes |-> <<"n">>]
FormBad ==
    [FormEdit EXCEPT !.attempts = <<"x">>]

\* What str(uuid.uuid4()) returns at line 182: an id no record carries (the
\* first unused one, as in FirstUnused).
FreshUuids(qs) ==
    LET unused == { k \in 1..Len(Uuids) : \A j \in 1..Len(qs) : qs[j].id # Uuids[k] }
    IN  { Uuids[k] : k \in { m \in unused : \A j \in unused : m <= j } }
\* The ids of the records of the list.
IdsOf(qs) == { qs[k].id : k \in 1..Len(qs) }
\* The id field of a POST: empty, the id of a record of the list, or an id
\* of no record.
Qids(qs) == {"", "n1"} \cup IdsOf(qs)
\* The index parameter of a GET: absent ({}) or an integer ({k}).
IdxParams(n) == {{}} \cup { {k} : k \in (-1)..n }
\* The action field of a POST ("" stands for any value the handler ignores).
Actions == {"", "prev", "next", "new", "add", "save", "delete"}
\* Lines 158-159: the session's admin_index, 0 when it has none yet.
SessionIndex(s) == IF session[s] = Unset THEN 0 ELSE session[s]

\* ViewIndex without the clamp.
ViewIndexUnclamped(idx, n) == IF n > 0 THEN idx ELSE 0

\* Line 223: the index handed to the template, and used to read the record.
ViewIndex(idx, n) == IF n > 0 THEN index_clamp(idx, n) ELSE 0

\* Lines 221-228: what the template is given.  viewed is the position read
\* from the list (no position is read when the list is empty).
AdminResponse(s, action, qid, rid, saves, pos, qs, idx) ==
    [NoResponse EXCEPT
       !.op = "admin", !.sid = s, !.action = action, !.qid = qid, !.rid = rid,
       !.saves = saves, !.pos = pos,
       !.count = Len(qs),
       !.index = ViewIndex(idx, Len(qs)),
       !.viewed = IF Len(qs) > 0 THEN ViewIndex(idx, Len(qs)) ELSE None_Index]

\* Line 163-164: the admin index after a GET.
IndexAfterGet(idx, idx_param, n) ==
    IF idx_param # {} /\ (\E k \in idx_param : 0 <= k /\ k < n)
    THEN CHOOSE k \in idx_param : TRUE
    ELSE idx

AdminGet(s, idx_param) ==
    LET idx == IndexAfterGet(SessionIndex(s), idx_param, Len(questions))
    IN  /\ session' = [session EXCEPT ![s] = idx]
        /\ last' = AdminResponse(s, "GET", "", "", 0, None_Index, questions, idx)
        /\ UNCHANGED <<questions, current_question_index, disk, inflight>>

\* Line 173: the admin index after prev (delta -1) or next (delta 1).
IndexAfterMove(idx, delta, n) == (idx + delta) % Max(1, n)

\* AdminMove moving the quiz cursor along with the admin index.
AdminMoveBothCursors(s, action, qid) ==
    /\ action \in {"prev", "next"}
    /\ LET delta == IF action = "prev" THEN -1 ELSE 1
           idx == IndexAfterMove(SessionIndex(s), delta, Len(questions))
       IN  /\ session' = [session EXCEPT ![s] = idx]
           /\ current_question_index' =
                 (current_question_index + delta) % Max(1, Len(questions))
           /\ last' = AdminResponse(s, action, qid, "", 0, None_Index, questions, idx)
    /\ UNCHANGED <<questions, disk, inflight>>

AdminMove(s, action, qid) ==
    /\ action \in {"prev", "next"}
    /\ LET delta == IF action = "prev" THEN -1 ELSE 1
           idx == IndexAfterMove(SessionIndex(s), delta, Len(questions))
       IN  /\ session' = [session EXCEPT ![s] = idx]
           /\ last' = AdminResponse(s, action, qid, "", 0, None_Index, questions, idx)
    /\ UNCHANGED <<questions, current_question_index, disk, inflight>>

\* action == "new", and any action the handler does not know.
AdminNew(s, action, qid) ==
    /\ action \in {"", "new"}
    /\ session' = [session EXCEPT ![s] = SessionIndex(s)]
    /\ last' = AdminResponse(s, action, qid, "", 0, None_Index, questions,
                             SessionIndex(s))
    /\ UNCHANGED <<questions, current_question_index, disk, inflight>>

\* Lines 181-193: the keyword arguments gathered from the form.
FormQ(qid, form, uuid) ==
    [id_           |-> IF qid # "" THEN qid ELSE uuid,
     definition    |-> Strip(form.definition),
     term          |-> Strip(form.term),
     attempts      |-> PyInt(form.attempts),
     correct_count |-> PyInt(form.correct_count),
     wrong_count   |-> PyInt(form.wrong_count),
     last_seen     |-> IF form.last_seen # "" THEN form.last_seen ELSE None,
     topic         |-> Strip(form.topic),
     level         |-> Strip(form.level),
     tags          |-> StripNonEmpty(SplitComma(form.tags, <<>>)),
     notes         |-> Strip(form.notes)]

FormRaises(form) ==
    \/ PyInt(form.attempts) = ValueError
    \/ PyInt(form.correct_count) = ValueError
    \/ PyInt(form.wrong_count) = ValueError

\* Line 199: the record is appended rather than written over an existing one.
IsAppend(action, qs, id) ==
    action = "add" \/ find_index_by_id(qs, id) = None_Index

\* int() raised ValueError at line 185, 186 or 187: the list is untouched.
\* Whether the admin_index set at line 159 reaches the session cookie
\* depends on how the server is run (the debug server re-raises, a WSGI
\* server answers 500 through the response pipeline), so both are possible.
AdminAddSaveError(s, action, qid, form) ==
    /\ action \in {"add", "save"}
    /\ FormRaises(form)
    /\ session' \in {session, [session EXCEPT ![s] = SessionIndex(s)]}
    /\ last' = [NoResponse EXCEPT !.op = "admin", !.sid = s, !.action = action,
                  !.qid = qid, !.outcome = "ValueError",
                  !.nums = <<form.attempts, form.correct_count, form.wrong_count>>]
    /\ UNCHANGED <<questions, current_question_index, disk, inflight>>

AdminAddSave(s, action, qid, form) ==
    /\ action \in {"add", "save"}
    /\ ~FormRaises(form)
    /\ \E uuid \in IF qid = "" THEN FreshUuids(questions) ELSE {None} :
       \E kw \in {FormQ(qid, form, uuid)} :
       \E form_q \in {_make_question(kw, uuid)} :
         LET i == find_index_by_id(questions, form_q.id)
             append == IsAppend(action, questions, form_q.id)
             qs2 == IF append
                    THEN Append(questions, form_q)
                    ELSE [questions EXCEPT ![i + 1] = form_q]
             idx == IF append THEN Len(qs2) - 1 ELSE i
         IN  /\ questions' = qs2
             /\ session' = [session EXCEPT ![s] = idx]
             /\ disk' = save_questions(questions')
             /\ last' = [AdminResponse(s, action, qid, form_q.id, 1, idx, questions', idx)
                           EXCEPT !.nums = <<form.attempts, form.correct_count,
                                             form.wrong_count>>]
    /\ UNCHANGED <<current_question_index, inflight>>

\* del questions[i]
DeleteAt(qs, i) == SubSeq(qs, 1, i) \o SubSeq(qs, i + 2, Len(qs))

\* IndexAfterDelete clamping to the length before the deletion.
IndexAfterDeleteOldLen(i, n) == Max(0, Min(i, Max(1, n + 1) - 1))

\* Line 217: the admin index after the record at position i was deleted
\* and n records are left.
IndexAfterDelete(i, n) == index_clamp(i, Max(1, n))

\* AdminDelete putting the admin index back to 0 when nothing is deleted.
AdminDeleteResetsIndex(s, action, qid) ==
    /\ action = "delete"
    /\ LET i == find_index_by_id(questions, qid)
       IN  IF qid # "" /\ i # None_Index
           THEN LET qs2 == DeleteAt(questions, i)
                    idx == IndexAfterDelete(i, Len(qs2))
                IN  /\ questions' = qs2
                    /\ session' = [session EXCEPT ![s] = idx]
                    /\ disk' = save_questions(qs2)
                    /\ last' = AdminResponse(s, action, qid, "", 1, i, qs2, idx)
           ELSE /\ session' = [session EXCEPT ![s] = 0]
                /\ last' = AdminResponse(s, action, qid, "", 0, None_Index,
                                         questions, 0)
                /\ UNCHANGED <<questions, disk>>
    /\ UNCHANGED <<current_question_index, inflight>>

AdminDelete(s, action, qid) ==
    /\ action = "delete"
    /\ LET i == find_index_by_id(questions, qid)
       IN  IF qid # "" /\ i # None_Index
           THEN LET qs2 == DeleteAt(questions, i)
                    idx == IndexAfterDelete(i, Len(qs2))
                IN  /\ questions' = qs2
                    /\ session' = [session EXCEPT ![s] = idx]
                    /\ disk' = save_questions(qs2)
                    /\ last' = AdminResponse(s, action, qid, "", 1, i, qs2, idx)
           ELSE /\ session' = [session EXCEPT ![s] = SessionIndex(s)]
                /\ last' = AdminResponse(s, action, qid, "", 0, None_Index,
                                         questions, SessionIndex(s))
                /\ UNCHANGED <<questions, disk>>
    /\ UNCHANGED <<current_question_index, inflight>>

question_admin(s, method, idx_param, action, qid, form) ==
    \/ method = "GET" /\ AdminGet(s, idx_param)
    \/ method = "POST" /\ AdminMove(s, action, qid)
    \/ method = "POST" /\ AdminNew(s, action, qid)
    \/ method = "POST" /\ AdminAddSave(s, action, qid, form)
    \/ method = "POST" /\ AdminAddSaveError(s, action, qid, form)
    \/ method = "POST" /\ AdminDelete(s, action, qid)

\* ------------------------------------------------------ the specifications
QuizStep(AnswerSet) ==
    \E answer \in AnswerSet, mc \in BOOLEAN : quiz(answer, mc)

\* The requests of the sessions of SessionSet to /question_admin, the list
\* kept within n records.  A field the handler does not read for the
\* request's method and action is left empty.
AdminStep(SessionSet, ActionSet, FormSet, n) ==
    \E s \in SessionSet, method \in {"GET", "POST"} :
      \E idx_param \in IF method = "GET" THEN IdxParams(n) ELSE {{}} :
        \E action \in IF method = "GET" THEN {""} ELSE ActionSet :
          \E qid \in IF action \in {"add", "save", "delete"}
                     THEN Qids(questions) ELSE {""} :
            \E form \in IF action \in {"add", "save"} THEN FormSet ELSE {FormNew} :
              /\ question_admin(s, method, idx_param, action, qid, form)
              /\ Len(questions') <= n

\* The whole application, with one operator at the admin pages.
Next ==
    \/ QuizStep({NoAnswer, <<" ", "a">>})
    \/ shuffle_questions
    \/ stats
    \/ home
    \/ AdminStep({1}, Actions, {FormBad, FormNew}, MaxLen)

Spec == Init /\ [][Next]_vars

\* The quiz pages, /stats, and an operator who only deletes records.
InitQuiz == InitWith(QuizRecords, MaxQuizLen)

NextQuiz ==
    \/ QuizStep(Answers)
    \/ shuffle_questions
    \/ stats
    \/ \E qid \in IdsOf(questions) : AdminDelete(1, "delete", qid)

SpecQuiz == InitQuiz /\ [][NextQuiz]_vars

\* The admin pages browsed from two sessions that also delete records.
InitBrowse == InitWith(BrowseRecords, MaxBrowseLen)

NextBrowse ==
    AdminStep(Sessions, {"", "prev", "next", "new", "delete"}, {FormNew}, MaxBrowseLen)

SpecBrowse == InitBrowse /\ [][NextBrowse]_vars

\* The multiple-choice options over lists in which a term may repeat.
InitMC == InitWith(McRecords, MaxMCLen)

NextMC ==
    \/ \E mc \in BOOLEAN : QuizEmpty(NoAnswer, mc)
    \/ \E mc \in BOOLEAN : QuizShow(NoAnswer, mc)
    \/ QuizGrade(<<"z">>, FALSE)

SpecMC == InitMC /\ [][NextMC]_vars

\* The module loaded again (lines 97-98 when the server process starts): the
\* list is read from the document, the quiz cursor is 0; the admin index
\* lives in the browser's cookie and survives.
Restart ==
    /\ questions' = load_questions(disk)
    /\ current_question_index' = 0
    /\ last' = [NoResponse EXCEPT !.op = "load"]
    /\ UNCHANGED <<session, disk, inflight>>

\* Rows a questions.json written by hand or by an older version may hold:
\* legacy rows (full and short), a record as save_questions writes it, an
\* object with only some of the keys, an object whose id is empty, and a
\* value that is neither an object nor an array.
DocRows ==
    { [legacy |-> << <<"d">>, <<"B", " ">>, 1 >>],
      [legacy |-> << <<"d">> >>],
      JsonOfRecord(Rec("i3", <<"f">>, <<"A">>, 1, 1, "t0")),
      [definition |-> <<"p">>, term |-> <<"b">>],
      JsonOfRecord(Rec("", <<"e">>, <<"c">>, 0, 0, None)),
      [other |-> 7] }
Documents ==
    {[exists |-> FALSE, rows |-> <<>>]}
      \cup { [exists |-> TRUE, rows |-> rows] :
               rows \in UNION { [1..k -> DocRows] : k \in 0..MaxDocLen } }

\* The application started on any of these documents, then answers graded,
\* records saved and deleted, and restarts.
InitLoad ==
    /\ disk \in Documents
    /\ questions = load_questions(disk)
    /\ current_question_index = 0
    /\ session = [s \in Sessions |-> Unset]
    /\ last = NoResponse
    /\ inflight = [t \in Threads |-> IdleThread]

NextLoad ==
    \/ QuizGrade(<<" ", "a">>, FALSE)
    \/ \E qid \in {""} \cup IdsOf(questions) :
         /\ AdminAddSave(1, "save", qid, FormNew)
         /\ Len(questions') <= MaxDocLen
    \/ \E qid \in IdsOf(questions) : AdminDelete(1, "delete", qid)
    \/ Restart

SpecLoad == InitLoad /\ [][NextLoad]_vars

\* ------------------------------------------------- requests in threads
\* app.run (line 301) starts werkzeug's development server, which hands each
\* request to a thread of its own; the handlers take no lock.  A handler is
\* modelled here one source statement at a time, each statement atomic (a
\* coarser grain than the interpreter's, which may switch threads inside a
\* statement as well): the steps of one thread interleave with the steps of
\* the other.  Step names carry the line the thread is at.
At(t, req, line) == inflight[t].req = req /\ inflight[t].pc = line

\* The thread goes on to the given line, its locals changed as given.
Goto(t, line) == [inflight EXCEPT ![t].pc = line]

\* The thread's request ends with the given outcome.
Finish(t, outcome) == [inflight EXCEPT ![t].pc = 0, ![t].outcome = outcome]

\* A request arrives and is given to thread t, which has none.
Arrive(t, req, answer, qid) ==
    /\ inflight[t].pc = 0
    /\ inflight[t].served < MaxRequests
    /\ inflight' = [inflight EXCEPT
                      ![t] = [IdleThread EXCEPT
                                !.req = req, !.answer = answer, !.qid = qid,
                                !.pc = CASE req = "quiz" -> 245
                                         [] req = "shuffle" -> 139
                                         [] req = "delete" -> 212,
                                !.served = inflight[t].served + 1,
                                !.graded = inflight[t].graded]]
    /\ UNCHANGED <<questions, current_question_index, session, disk, last>>

\* Line 245: if not questions.
Quiz245(t) ==
    /\ At(t, "quiz", 245)
    /\ inflight' = IF questions = <<>> THEN Finish(t, "ok") ELSE Goto(t, 251)
    /\ UNCHANGED <<questions, current_question_index, session, disk, last>>

\* Lines 251-253: given and correct are computed from the record at the
\* quiz cursor (the answer of these requests is never empty).
Quiz253(t) ==
    /\ At(t, "quiz", 251)
    /\ inflight' =
         IF current_question_index >= Len(questions) THEN Finish(t, "IndexError")
         ELSE [inflight EXCEPT
                 ![t].pc = 255,
                 ![t].correct = Lower(questions[current_question_index + 1].term)]
    /\ UNCHANGED <<questions, current_question_index, session, disk, last>>

\* Line 255: attempts += 1 on the record at the quiz cursor.
Quiz255(t) ==
    /\ At(t, "quiz", 255)
    /\ IF current_question_index >= Len(questions)
       THEN inflight' = Finish(t, "IndexError") /\ UNCHANGED questions
       ELSE /\ questions' = [questions EXCEPT
                               ![current_question_index + 1].attempts = @ + 1]
            /\ inflight' = Goto(t, 258)
    /\ UNCHANGED <<current_question_index, session, disk, last>>

\* Lines 258-259: last_seen = now on the record at the quiz cursor.
Quiz259(t) ==
    /\ At(t, "quiz", 258)
    /\ IF current_question_index >= Len(questions)
       THEN inflight' = Finish(t, "IndexError") /\ UNCHANGED questions
       ELSE /\ \E now \in Times :
                 questions' = [questions EXCEPT
                                 ![current_question_index + 1].last_seen = now]
            /\ inflight' = Goto(t, 261)
    /\ UNCHANGED <<current_question_index, session, disk, last>>

\* Lines 261-263 and 268-270: given == correct, then correct_count += 1 or
\* wrong_count += 1 on the record at the quiz cursor.
Quiz261(t) ==
    /\ At(t, "quiz", 261)
    /\ LET matched == Lower(Strip(inflight[t].answer)) = inflight[t].correct
       IN  IF current_question_index >= Len(questions)
           THEN inflight' = Finish(t, "IndexError") /\ UNCHANGED questions
           ELSE /\ questions' =
                     IF matched
                     THEN [questions EXCEPT
                             ![current_question_index + 1].correct_count = @ + 1]
                     ELSE [questions EXCEPT
                             ![current_question_index + 1].wrong_count = @ + 1]
                /\ inflight' = [inflight EXCEPT ![t].pc = 264,
                                                ![t].matched = matched,
                                                ![t].graded = @ + 1]
    /\ UNCHANGED <<current_question_index, session, disk, last>>

\* Line 264 or 271: save_questions(questions).
Quiz264(t) ==
    /\ At(t, "quiz", 264)
    /\ disk' = save_questions(questions)
    /\ inflight' = Goto(t, IF inflight[t].matched THEN 266 ELSE 276)
    /\ UNCHANGED <<questions, current_question_index, session, last>>

\* Line 266: the quiz cursor moves to random.randint(0, len(questions) - 1),
\* which raises ValueError on the empty range.
Quiz266(t) ==
    /\ At(t, "quiz", 266)
    /\ IF questions = <<>>
       THEN inflight' = Finish(t, "ValueError") /\ UNCHANGED current_question_index
       ELSE /\ current_question_index' \in RandomIndexes(Len(questions))
            /\ inflight' = Goto(t, 276)
    /\ UNCHANGED <<questions, session, disk, last>>

\* Lines 276-297: the options and the page are made from the record at the
\* quiz cursor.
Quiz283(t) ==
    /\ At(t, "quiz", 276)
    /\ inflight' = IF current_question_index >= Len(questions)
                   THEN Finish(t, "IndexError") ELSE Finish(t, "ok")
    /\ UNCHANGED <<questions, current_question_index, session, disk, last>>

\* Line 139: random.shuffle(questions).
Shuffle139(t) ==
    /\ At(t, "shuffle", 139)
    /\ questions' \in Shuffles(questions)
    /\ inflight' = Goto(t, 140)
    /\ UNCHANGED <<current_question_index, session, disk, last>>

\* Line 140: current_question_index = 0.
Shuffle140(t) ==
    /\ At(t, "shuffle", 140)
    /\ current_question_index' = 0
    /\ inflight' = Finish(t, "ok")
    /\ UNCHANGED <<questions, session, disk, last>>

\* Lines 212-214: the position of the record to delete is looked up.
Delete213(t) ==
    /\ At(t, "delete", 212)
    /\ LET i == find_index_by_id(questions, inflight[t].qid)
       IN  inflight' = IF inflight[t].qid # "" /\ i # None_Index
                       THEN [inflight EXCEPT ![t].pc = 215, ![t].i = i]
                       ELSE Finish(t, "ok")
    /\ UNCHANGED <<questions, current_question_index, session, disk, last>>

\* Line 215: del questions[i].
Delete215(t) ==
    /\ At(t, "delete", 215)
    /\ IF inflight[t].i >= Len(questions)
       THEN inflight' = Finish(t, "IndexError") /\ UNCHANGED questions
       ELSE /\ questions' = DeleteAt(questions, inflight[t].i)
            /\ inflight' = Goto(t, 217)
    /\ UNCHANGED <<current_question_index, session, disk, last>>

\* Line 217: the admin index of the thread's session (session t).
Delete217(t) ==
    /\ At(t, "delete", 217)
    /\ session' = [session EXCEPT ![t] = IndexAfterDelete(inflight[t].i, Len(questions))]
    /\ inflight' = Goto(t, 219)
    /\ UNCHANGED <<questions, current_question_index, disk, last>>

\* Line 219: save_questions(questions), and the page.
Delete219(t) ==
    /\ At(t, "delete", 219)
    /\ disk' = save_questions(questions)
    /\ inflight' = Finish(t, "ok")
    /\ UNCHANGED <<questions, current_question_index, session, last>>

\* Fresh records on which answers are graded by concurrent requests.
ConcRecords ==
    { Rec("i1", <<"d">>, <<"A">>, 0, 0, None),
      Rec("i5", <<"e">>, <<"b">>, 0, 0, None) }

InitConc ==
    /\ questions \in { qs \in ListsOf(ConcRecords, 2) : Len(qs) = 2 }
    /\ current_question_index = 0
    /\ session = [s \in Sessions |-> Unset]
    /\ disk = save_questions(questions)
    /\ last = NoResponse
    /\ inflight = [t \in Threads |-> IdleThread]

NextConc ==
    \E t \in Threads :
      \/ Arrive(t, "quiz", <<" ", "a">>, "")
      \/ Arrive(t, "shuffle", NoAnswer, "")
      \/ \E qid \in IdsOf(questions) : Arrive(t, "delete", NoAnswer, qid)
      \/ Quiz245(t) \/ Quiz253(t) \/ Quiz255(t) \/ Quiz259(t)
      \/ Quiz261(t) \/ Quiz264(t) \/ Quiz266(t) \/ Quiz283(t)
      \/ Shuffle139(t) \/ Shuffle140(t)
      \/ Delete213(t) \/ Delete215(t) \/ Delete217(t) \/ Delete219(t)

SpecConc == InitConc /\ [][NextConc]_vars

\* ------------------------------------------------------------ the claims
\* The position, 1-based, of the record the quiz cursor points at.
Cur == current_question_index + 1

\* A /quiz request with a non-empty answer has just been handled while the
\* list held a record at the quiz cursor.
GradedRequest ==
    /\ last'.op = "quiz"
    /\ HasAnswer(last'.answer)
    /\ questions # <<>>
    /\ current_question_index < Len(questions)

\* The answer, trimmed and lowercased, equals the lowercased term.
AnswerIs(answer, term) == Lower(Strip(answer)) = Lower(term)

\* C1: a /quiz request whose non-empty answer matches the term of the record
\* at the quiz cursor adds 1 to that record's attempts and correct_count,
\* leaves its wrong_count, stamps its last_seen, persists the list, answers
\* with multiple choice off whatever mc was, and leaves the quiz cursor at
\* a valid position.
C1_CorrectAnswer ==
    [][ (GradedRequest /\ AnswerIs(last'.answer, questions[Cur].term)) =>
          /\ Len(questions') = Len(questions)
          /\ questions'[Cur].attempts = questions[Cur].attempts + 1
          /\ questions'[Cur].correct_count = questions[Cur].correct_count + 1
          /\ questions'[Cur].wrong_count = questions[Cur].wrong_count
          /\ last'.now \in Times
          /\ questions'[Cur].last_seen = last'.now
          /\ last'.saves = 1
          /\ disk' = save_questions(questions')
          /\ last'.outcome = "ok"
          /\ ~last'.mc_mode
          /\ last'.mc_options = <<>>
          /\ current_question_index' \in 0..(Len(questions') - 1) ]_vars

\* A correct answer sent with mc=1 to a list of two records has moved the
\* quiz cursor to the second record.
C1_Witness ==
    /\ last.op = "quiz"
    /\ last.mc
    /\ last.before # <<>>
    /\ AnswerIs(last.answer, last.before[1].term)
    /\ questions[last.pos + 1].correct_count = last.before[1].correct_count + 1
    /\ Len(questions) = 2
    /\ current_question_index = 1
    /\ last.pos = 0

\* C2: a /quiz request whose non-empty answer does not match the current
\* record's term adds 1 to that record's attempts and wrong_count, leaves its
\* correct_count and the quiz cursor, and answers in multiple-choice mode; a
\* second wrong answer right after it is graded against the same record,
\* which then has 2 more attempts and 2 more wrong answers than before both.
C2_WrongAnswer ==
    [][ (GradedRequest /\ ~AnswerIs(last'.answer, questions[Cur].term)) =>
          /\ questions'[Cur].attempts = questions[Cur].attempts + 1
          /\ questions'[Cur].wrong_count = questions[Cur].wrong_count + 1
          /\ questions'[Cur].correct_count = questions[Cur].correct_count
          /\ current_question_index' = current_question_index
          /\ last'.mc_mode
          /\ last'.outcome = "ok"
          /\ ( ( /\ last.op = "quiz"
                 /\ last.before # <<>>
                 /\ ~AnswerIs(last.answer, last.before[1].term) ) =>
               /\ current_question_index = last.pos
               /\ questions[Cur].id = last.before[1].id
               /\ questions'[Cur].attempts = last.before[1].attempts + 2
               /\ questions'[Cur].wrong_count = last.before[1].wrong_count + 2
               /\ questions'[Cur].correct_count = last.before[1].correct_count ) ]_vars

\* A wrong answer has followed a wrong answer.
C2_Witness ==
    /\ last.op = "quiz"
    /\ last.after_wrong
    /\ last.before # <<>>
    /\ ~AnswerIs(last.answer, last.before[1].term)
    /\ questions[last.pos + 1].wrong_count = 2
    /\ last.mc_mode

\* attempts - (correct_count + wrong_count) of each record, by id.
Imbalances(qs) ==
    { <<qs[k].id, qs[k].attempts - (qs[k].correct_count + qs[k].wrong_count)>>
        : k \in 1..Len(qs) }

\* C3: no /quiz and no /shuffle request changes, for any record, the
\* quantity attempts - (correct_count + wrong_count).
C3_ImbalanceKept ==
    [][ last'.op \in {"quiz", "shuffle"} =>
          /\ Len(questions') = Len(questions)
          /\ Imbalances(questions') = Imbalances(questions) ]_vars

\* An answer to the record whose attempts exceed its two counts by 1 has
\* been graded, and a record that was balanced has been graded as well.
C3_Witness ==
    /\ last.op = "quiz"
    /\ last.before # <<>>
    /\ \E k \in 1..Len(questions) :
         /\ questions[k].attempts = 2
         /\ questions[k].correct_count + questions[k].wrong_count = 1
    /\ \E k \in 1..Len(questions) :
         /\ questions[k].attempts = 1
         /\ questions[k].correct_count + questions[k].wrong_count = 1
         /\ questions[k].last_seen \in Times

\* C4 (as claimed): every /quiz request with a non-empty answer on a
\* non-empty list persists the list once and changes exactly the record at
\* the quiz cursor, all other records, the length and the order being kept.
C4_GradedSubmissionEffect ==
    [][ (last'.op = "quiz" /\ HasAnswer(last'.answer) /\ questions # <<>>) =>
          /\ last'.saves = 1
          /\ disk' = save_questions(questions')
          /\ Len(questions') = Len(questions)
          /\ current_question_index < Len(questions)
          /\ questions'[Cur] # questions[Cur]
          /\ \A k \in 1..Len(questions) : k # Cur => questions'[k] = questions[k] ]_vars

\* C5 (as claimed): no two records of the list carry the same id.
C5_UniqueIds ==
    \A a, b \in 1..Len(questions) : a # b => questions[a].id # questions[b].id

\* C6 (as claimed): an add or save whose record's id matches no record
\* appends the record and points the admin index at it; one whose id matches
\* a record writes over that record, keeps the length and points the admin
\* index there; either way the list is persisted.
C6_AddOrSave ==
    [][ (last'.op = "admin" /\ last'.action \in {"add", "save"}
                             /\ last'.outcome = "ok") =>
          /\ disk' = save_questions(questions')
          /\ IF \A k \in 1..Len(questions) : questions[k].id # last'.rid
             THEN /\ Len(questions') = Len(questions) + 1
                  /\ SubSeq(questions', 1, Len(questions)) = questions
                  /\ questions'[Len(questions')].id = last'.rid
                  /\ session'[last'.sid] = Len(questions') - 1
             ELSE /\ Len(questions') = Len(questions)
                  /\ session'[last'.sid] \in 0..(Len(questions) - 1)
                  /\ questions[session'[last'.sid] + 1].id = last'.rid
                  /\ questions'[session'[last'.sid] + 1].id = last'.rid
                  /\ \A k \in 1..Len(questions) :
                       k # session'[last'.sid] + 1 => questions'[k] = questions[k] ]_vars

\* clamp(i, m) = max(0, min(i, m - 1))
Clamp(i, m) == Max(0, Min(i, m - 1))

\* C7: an admin delete that removes the record at position i of a list of n
\* records leaves the admin index at clamp(i, max(1, n - 1)), which lies in
\* [0, max(0, n - 2)].
C7_IndexAfterDelete ==
    [][ (last'.op = "admin" /\ last'.action = "delete"
                             /\ Len(questions') # Len(questions)) =>
          \E i \in 0..(Len(questions) - 1) :
            /\ questions[i + 1].id = last'.qid
            /\ questions' = SubSeq(questions, 1, i)
                              \o SubSeq(questions, i + 2, Len(questions))
            /\ session'[last'.sid] = Clamp(i, Max(1, Len(questions) - 1))
            /\ session'[last'.sid] >= 0
            /\ session'[last'.sid] <= Max(0, Len(questions) - 2) ]_vars

\* The last record of a list of two has been deleted.
C7_Witness ==
    /\ last.op = "admin"
    /\ last.action = "delete"
    /\ last.saves = 1
    /\ last.pos = 1
    /\ Len(questions) = 1
    /\ session[last.sid] = 0

\* C8: an admin request reads no record at a position outside [0, n), and
\* the index it reports is in [0, n) when the list has n > 0 records and is
\* 0 when the list is empty.
C8_AdminIndexInRange ==
    last.op = "admin" =>
      /\ last.outcome = "ok"
      /\ last.count = Len(questions)
      /\ IF Len(questions) > 0
         THEN /\ 0 <= last.index /\ last.index < Len(questions)
              /\ 0 <= last.viewed /\ last.viewed < Len(questions)
         ELSE /\ last.index = 0
              /\ last.viewed = None_Index

\* A session whose stored index was left beyond the list by the other
\* session's delete has made a request.
C8_Witness ==
    /\ last.op = "admin"
    /\ last.action \in {"new", "GET"}
    /\ Len(questions) > 0
    /\ session[last.sid] >= Len(questions)
    /\ \E s \in Sessions : s # last.sid /\ session[s] # Unset

\* The distinct terms of the list.
TermsOf(qs) == { qs[k].term : k \in 1..Len(qs) }

\* C9 (as claimed): the multiple-choice options hold the current term once,
\* hold no entry twice, and are min(4, number of distinct terms) many.
C9_McOptions ==
    (last.op = "quiz" /\ last.mc_mode) =>
      /\ Cardinality({ k \in 1..Len(last.mc_options) :
                         last.mc_options[k] = questions[Cur].term }) = 1
      /\ \A a, b \in 1..Len(last.mc_options) :
           a # b => last.mc_options[a] # last.mc_options[b]
      /\ Len(last.mc_options) = Min(4, Cardinality(TermsOf(questions)))

RECURSIVE SumCorrect(_)
SumCorrect(qs) ==
    IF qs = <<>> THEN 0 ELSE Head(qs).correct_count + SumCorrect(Tail(qs))

\* C10 (as claimed): /stats returns the number of records with attempts > 0,
\* the number with attempts = 0 and the sum of correct_count.
C10_Stats ==
    last.op = "stats" =>
      last.stats = << Cardinality({ k \in 1..Len(questions) : questions[k].attempts > 0 }),
                      Cardinality({ k \in 1..Len(questions) : questions[k].attempts = 0 }),
                      SumCorrect(questions) >>

\* How many times each record occurs in the list.
RecordBag(qs) ==
    [r \in { qs[k] : k \in 1..Len(qs) } |-> Cardinality({ k \in 1..Len(qs) : qs[k] = r })]

\* C11: a /shuffle request keeps the multiset of records (ids and all
\* fields), leaves the quiz cursor at 0, and leaves the persisted document
\* and every session's admin index as they were.
C11_ShuffleFrame ==
    [][ last'.op = "shuffle" =>
          /\ Len(questions') = Len(questions)
          /\ RecordBag(questions') = RecordBag(questions)
          /\ current_question_index' = 0
          /\ disk' = disk
          /\ session' = session ]_vars

\* A /shuffle that came with the quiz cursor on the second record has left
\* the list in another order than the persisted document's, a graded record
\* among its records.
C11_Witness ==
    /\ last.op = "shuffle"
    /\ last.pos = 1
    /\ current_question_index = 0
    /\ Len(questions) = 2
    /\ Len(disk.rows) = 2
    /\ disk.rows[1].id = questions[2].id
    /\ disk.rows[2].id = questions[1].id
    /\ \E k \in 1..2 : questions[k].last_seen \in Times

\* C12: save followed by load gives back the in-memory list: same length,
\* same order, every record equal field for field, the id included.
C12_RoundTrip ==
    load_questions(save_questions(questions)) = questions

\* The list was read back from a document the application had saved: it
\* holds a record graded before the restart and a record whose id is a uuid
\* the application drew, and it is what the document's save would hold.
C12_Witness ==
    /\ last.op = "load"
    /\ disk = save_questions(questions)
    /\ \E k \in 1..Len(questions) : questions[k].last_seen \in Times
    /\ \E k \in 1..Len(questions), u \in 1..Len(Uuids) : questions[k].id = Uuids[u]
    /\ \E k \in 1..Len(questions) : questions[k].tags # <<>>

\* C13: on an empty list every /quiz request, with or without an answer and
\* whatever mc is, gets the "no questions" response: nothing is graded, no
\* record is read, and the list, the quiz cursor, the persisted document and
\* the sessions are unchanged.
C13_EmptyQuiz ==
    [][ (last'.op = "quiz" /\ questions = <<>>) =>
          /\ last'.outcome = "ok"
          /\ last'.response = "No questions found."
          /\ last'.graded = "none"
          /\ last'.saves = 0
          /\ last'.viewed = None_Index
          /\ ~last'.mc_mode
          /\ last'.mc_options = <<>>
          /\ questions' = <<>>
          /\ current_question_index' = current_question_index
          /\ disk' = disk
          /\ session' = session ]_vars

\* An answer sent with mc=1 after the last record was deleted, the quiz
\* cursor still where a correct answer had moved it.
C13_Witness ==
    /\ last.op = "quiz"
    /\ questions = <<>>
    /\ HasAnswer(last.answer)
    /\ last.mc
    /\ last.response = "No questions found."
    /\ current_question_index = 1
    /\ disk = save_questions(<<>>)
    /\ session[1] # Unset

\* The text is empty or is not an integer numeral (digits, blanks around).
NotAnInteger(s) ==
    \/ Strip(s) = <<>>
    \/ \E k \in 1..Len(Strip(s)) : Strip(s)[k] \notin {"0", "1", "2", "3"}

\* C14 (as claimed): an admin add or save whose attempts, correct_count or
\* wrong_count field is empty or not an integer completes, stores 0 in that
\* field of the record and persists the list.
C14_NumericFallback ==
    [][ ( /\ last'.op = "admin"
          /\ last'.action \in {"add", "save"}
          /\ \E k \in 1..3 : NotAnInteger(last'.nums[k]) ) =>
          /\ last'.outcome = "ok"
          /\ last'.saves = 1
          /\ disk' = save_questions(questions')
          /\ last'.pos \in 0..(Len(questions') - 1)
          /\ NotAnInteger(last'.nums[1]) => questions'[last'.pos + 1].attempts = 0
          /\ NotAnInteger(last'.nums[2]) => questions'[last'.pos + 1].correct_count = 0
          /\ NotAnInteger(last'.nums[3]) => questions'[last'.pos + 1].wrong_count = 0 ]_vars

RECURSIVE SumAttempts(_)
SumAttempts(qs) ==
    IF qs = <<>> THEN 0 ELSE Head(qs).attempts + SumAttempts(Tail(qs))

\* C15 (as claimed): requests in flight at the same time leave what some
\* serial order of them leaves.  Every serial order of graded submissions,
\* shuffles and deletes on records that start with attempts = correct_count
\* = wrong_count = 0 leaves each record with attempts = correct_count +
\* wrong_count (a submission's increments land on one record), ends no
\* request in an exception if no record was deleted, and, if none was,
\* leaves as many attempts in all as submissions were graded (no increment
\* is lost); so must the concurrent requests, once all of them have ended.
C15_Serialised ==
    (\A t \in Threads : inflight[t].pc = 0) =>
      /\ \A k \in 1..Len(questions) :
           questions[k].attempts = questions[k].correct_count + questions[k].wrong_count
      /\ (\A t \in Threads : inflight[t].req # "delete") =>
           /\ \A t \in Threads : inflight[t].outcome = "ok"
           /\ SumAttempts(questions) = inflight[1].graded + inflight[2].graded

\* The admin index of session s: what is stored, 0 when nothing is stored
\* yet (every admin request starts by storing 0 in that case).
StoredIndex(ses, s) == IF ses[s] = Unset THEN 0 ELSE ses[s]

\* C16: an admin delete whose id is empty or is the id of no record changes
\* neither the list nor the persisted document nor the session's admin
\* index and persists nothing; any other delete removes exactly the first
\* record with that id, keeps the order of the others and persists once.
C16_DeleteNoOp ==
    [][ (last'.op = "admin" /\ last'.action = "delete") =>
          LET hits == { k \in 1..Len(questions) : questions[k].id = last'.qid }
          IN  IF last'.qid = "" \/ hits = {}
              THEN /\ questions' = questions
                   /\ disk' = disk
                   /\ last'.saves = 0
                   /\ StoredIndex(session', last'.sid) = StoredIndex(session, last'.sid)
                   /\ \A s \in Sessions : s # last'.sid => session'[s] = session[s]
              ELSE /\ last'.saves = 1
                   /\ disk' = save_questions(questions')
                   /\ Len(questions') = Len(questions) - 1
                   /\ \E k \in hits :
                        /\ \A j \in hits : k <= j
                        /\ \A j \in 1..(k - 1) : questions'[j] = questions[j]
                        /\ \A j \in k..Len(questions') : questions'[j] = questions[j + 1] ]_vars

\* A delete with the id of no record, sent by a session whose admin index is
\* 1 over a list of two records that carry one id.
C16_Witness ==
    /\ last.op = "admin"
    /\ last.action = "delete"
    /\ last.qid = "n1"
    /\ last.saves = 0
    /\ session[last.sid] = 1
    /\ Len(questions) = 2
    /\ questions[1].id = questions[2].id

\* C17: no admin request changes the quiz cursor, no /quiz or /shuffle
\* request changes a session's admin index, and admin GET, prev, next and
\* new change neither the list nor the persisted document.
C17_CursorsIndependent ==
    [][ /\ last'.op = "admin" => current_question_index' = current_question_index
        /\ last'.op \in {"quiz", "shuffle"} => session' = session
        /\ (last'.op = "admin" /\ last'.action \in {"prev", "next", "new", "GET"}) =>
             /\ questions' = questions
             /\ disk' = disk ]_vars

\* The operator has moved the admin index from the second record round to
\* the first while the quiz cursor stands on the second, and an answer was
\* graded before.
C17_Witness ==
    /\ last.op = "admin"
    /\ last.action = "next"
    /\ session[1] = 0
    /\ current_question_index = 1
    /\ Len(questions) = 2
    /\ \E k \in 1..2 : questions[k].last_seen \in Times

\* C18 (as claimed): a non-empty answer is graded as a match exactly when
\* the answer and the stored term of the record at the quiz cursor are equal
\* after both are trimmed and lowercased.
C18_TrimmedMatch ==
    [][ GradedRequest =>
          ( last'.graded = "correct"
              <=> Lower(Strip(last'.answer)) = Lower(Strip(questions[Cur].term)) ) ]_vars

\* C19 (as claimed): whenever the list is not empty the quiz cursor is a
\* position of the list, and no /quiz request fails reading the record at
\* the cursor.
C19_QuizIndexValid ==
    /\ questions # <<>> =>
         (0 <= current_question_index /\ current_question_index < Len(questions))
    /\ ~(last.op = "quiz" /\ last.outcome = "IndexError")

\* The eleven keys of a record in the canonical shape.
CanonicalKeys ==
    {"id", "definition", "term", "attempts", "correct_count", "wrong_count",
     "last_seen", "topic", "level", "tags", "notes"}

\* The document holds exactly the list: as many rows, in the same order, each
\* an object of the eleven keys with the record's values (None as null).
Persisted(doc, qs) ==
    /\ doc.exists
    /\ Len(doc.rows) = Len(qs)
    /\ \A k \in 1..Len(qs) :
         /\ DOMAIN doc.rows[k] = CanonicalKeys
         /\ \A f \in CanonicalKeys \ {"last_seen"} : doc.rows[k][f] = qs[k][f]
         /\ doc.rows[k].last_seen =
              IF qs[k].last_seen = None THEN JsonNull ELSE <<qs[k].last_seen>>

\* C20: right after a completed admin add or save, an admin delete that
\* removed a record, or a graded /quiz submission, the persisted document
\* holds exactly the in-memory list.
C20_PersistedTracksMemory ==
    ( \/ (last.op = "admin" /\ last.action \in {"add", "save"} /\ last.outcome = "ok")
      \/ (last.op = "admin" /\ last.action = "delete" /\ last.saves = 1)
      \/ (last.op = "quiz" /\ last.graded # "none") )
      => Persisted(disk, questions)

\* A record was added to a list of one graded record by a request that came
\* with an id already in the list: the document holds both records.
C20_Witness ==
    /\ last.op = "admin"
    /\ last.action = "add"
    /\ last.outcome = "ok"
    /\ Len(questions) = 2
    /\ Len(disk.rows) = 2
    /\ questions[1].last_seen \in Times
    /\ disk.rows[1].last_seen = <<questions[1].last_seen>>
    /\ disk.rows[2].id = last.rid
    /\ disk.rows[2].tags = << <<"x">>, <<"y">> >>
====
